---------------------------- MODULE Spec2Model ----------------------------
(***************************************************************************)
(* The chunked Monte Carlo driver of src/src/App.tsx: runMonteCarlo        *)
(* (lines 89-146), its timer callback tick (lines 105-143) and the         *)
(* continuation of runSimulation that ranks the returned list (lines       *)
(* 376-383); and runSimulation as a whole (lines 302-406) with the         *)
(* component state it sets, under SpecApp.                                 *)
(*                                                                         *)
(* Numbers.  Scores are kept as twice their value so that                  *)
(* baseStrength + noise * (volatility / 2) stays an integer; simProb is    *)
(* the character sequence toFixed(1) produces and is read back with        *)
(* ParseFloat.  JavaScript indices 0..n-1 are the indices 1..n here.       *)
(* counts is an Int32Array: it wraps only from 2^31 on, which no total of  *)
(* the model (and no entry of ITER_OPTIONS, at most 10^7) reaches.         *)
(***************************************************************************)
EXTENDS Integers, Sequences, FiniteSets, TLC

VARIABLES
    outcomes,   \* argument of runMonteCarlo: the input outcome list
    total,      \* argument of runMonteCarlo: the iteration count
    counts,     \* the closure's Int32Array tally (line 91)
    done,       \* the closure's iteration counter (line 93)
    timers,     \* number of setTimeout(tick, 0) callbacks not yet run
    progress,   \* the snapshots handed to onProgress, in call order
    elapsedMs,  \* Date.now() - start as read by each tick (line 127)
    promise,    \* state of the returned Promise
    result,     \* the list the Promise was resolved with
    resolves,   \* how many times resolve was called
    caller,     \* where runSimulation stands: before, at or after its await
    ranked,     \* runSimulation's simOutcomes after its sort (line 383)
    iterNo,     \* the batch loop's i while a tick is running (line 107)
    lastNoise,  \* the noise drawn for each outcome in the latest iteration
    rng,        \* how many samples Math.random has handed out so far
    samples,    \* which of them this run consumed: first, last, how many
    other,      \* the closure and Promise of a second call of runMonteCarlo
    iters,      \* React state iters (line 201)
    running,    \* React state running (line 202)
    progressState, \* React state progress (line 203): <<>> is null
    results,    \* React state results (line 204): <<>> is null
    isPast,     \* React state isPast (line 208)
    progInterval,  \* whether the interval of line 313 is set
    simPct      \* the interval's simPct (line 312), in halves

vars == <<outcomes, total, counts, done, timers, progress, elapsedMs,
          promise, result, resolves, caller, ranked, iterNo, lastNoise,
          rng, samples, other, iters, running, progressState, results,
          isPast, progInterval, simPct>>

(* the state of the App component and of a call of runSimulation *)
appVars == <<iters, running, progressState, results, isPast, progInterval,
             simPct>>

----------------------------------------------------------------------------
(* Bounds of the model *)

MaxOutcomes == 3
MaxNoise == 2
MaxSmallTotal == 3
MaxZeroDraws == 1

MaxIntervalTicks == 61

(* the floor of the chunk size, line 92 *)
MinChunk == 500

(* the initial value of the state iters, line 201 *)
DefaultIters == 10000

(* the cap of simPct, line 315 *)
MaxSimPct == 90

Strengths == {50, 70}
Volatilities == {0, 40}
Names == <<"A", "B", "C", "D", "E">>
ShortNames == <<"a", "b", "c", "d", "e">>
Details == <<"because A", "because B", "because C", "because D", "because E">>
Emojis == <<"sun", "rain", "fire", "star", "moon">>

(* noise samples of gaussianRandom, on a grid of whole units *)
NoiseSet == (0 - MaxNoise)..MaxNoise

Max(a, b) == IF a > b THEN a ELSE b
Min(a, b) == IF a < b THEN a ELSE b
Abs(x) == IF x < 0 THEN 0 - x ELSE x

RECURSIVE SumTo(_, _)
SumTo(f, n) == IF n = 0 THEN 0 ELSE f[n] + SumTo(f, n - 1)

(* sum of a sequence of integers *)
Sum(f) == SumTo(f, Len(f))

----------------------------------------------------------------------------
(* Input outcome lists: position i carries the name Names[i] and the       *)
(* other opaque strings of that position                                   *)

OutcomeListsOfLen(n) ==
    { [i \in 1..n |-> [name |-> Names[i],
                       shortName |-> ShortNames[i],
                       detail |-> Details[i],
                       emoji |-> Emojis[i],
                       baseStrength |-> p[i][1],
                       volatility |-> p[i][2]]] :
        p \in [1..n -> Strengths \X Volatilities] }

OutcomeLists(maxLen) == UNION { OutcomeListsOfLen(n) : n \in 0..maxLen }

----------------------------------------------------------------------------
(* One iteration of the batch loop, lines 108-122 *)

(* -Infinity is <<>>, a finite score s is <<s>> *)
NegInfinity == <<>>

(* line 115, doubled: 2 * (baseStrength + noise * (volatility / 2)) *)
Score(outcome, noise) == 2 * outcome.baseStrength + noise * outcome.volatility

BetterOrEqual(score, maxScore) == maxScore = NegInfinity \/ score >= maxScore[1]

(* line 117: score > maxScore *)
Better(score, maxScore) == maxScore = NegInfinity \/ score > maxScore[1]

RECURSIVE WinnerLoop(_, _, _, _, _)
WinnerLoop(outs, noise, j, maxScore, winnerIdx) ==
    IF j > Len(outs) THEN winnerIdx
    ELSE LET score == Score(outs[j], noise[j])
         IN  IF Better(score, maxScore)
             THEN WinnerLoop(outs, noise, j + 1, <<score>>, j)
             ELSE WinnerLoop(outs, noise, j + 1, maxScore, winnerIdx)

(* lines 108-121: maxScore = -Infinity, winnerIdx = 0 (index 1 here) *)
WinnerIdx(outs, noise) == WinnerLoop(outs, noise, 1, NegInfinity, 1)

(* line 122: counts[winnerIdx]++; a write outside the Int32Array is       *)
(* dropped                                                                 *)
Increment(cnt, w) ==
    [i \in DOMAIN cnt |-> IF i = w THEN cnt[i] + 1 ELSE cnt[i]]

(* every index one iteration can increment, over all noise vectors *)
Winners(outs) == { WinnerIdx(outs, noise) : noise \in [1..Len(outs) -> NoiseSet] }

----------------------------------------------------------------------------
(* The batch loop of tick, lines 106-123 *)

BatchUncapped(tot, dn) == Max(MinChunk, tot \div 100)

BatchFromStart(tot, dn) == Min(Max(MinChunk, tot \div 100), tot) - dn

ChunkFixed(tot) == MinChunk

(* line 92: CHUNK = Math.max(500, Math.floor(total / 100)) *)
CHUNK(tot) == Max(MinChunk, tot \div 100)

(* line 106: batch = Math.min(CHUNK, total - done) *)
Batch(tot, dn) == Min(CHUNK(tot), tot - dn)

(* line 107: for (i = 0; i < batch; i++) runs max(batch, 0) times *)
Iterations(batch) == Max(batch, 0)

(* the ways n iterations can be won by the indices ws: every function from *)
(* ws to the naturals whose values add up to n                             *)
RECURSIVE Distribute(_, _)
Distribute(ws, n) ==
    LET w == CHOOSE x \in ws : TRUE
    IN  IF ws = {w}
        THEN { (w :> n) }
        ELSE UNION { { (w :> k) @@ d : d \in Distribute(ws \ {w}, n - k) } :
                     k \in 0..n }

(* lines 107-123: the tallies the loop can leave.  Each iteration draws a  *)
(* fresh noise vector and increments counts[winnerIdx]; the tally after    *)
(* the loop depends only on how many iterations each index won.  A write   *)
(* to an index outside the Int32Array (the empty list) is dropped.         *)
AfterBatch(cnt, outs, batch) ==
    { [i \in DOMAIN cnt |-> cnt[i] + (IF i \in DOMAIN d THEN d[i] ELSE 0)] :
        d \in Distribute(Winners(outs), Iterations(batch)) }

----------------------------------------------------------------------------
(* Number formatting and parsing, lines 138 and 383 *)

DigitChars == <<"0", "1", "2", "3", "4", "5", "6", "7", "8", "9">>

NaNString == <<"N", "a", "N">>

RECURSIVE Digits(_)
Digits(n) ==
    IF n < 10 THEN <<DigitChars[n + 1]>>
    ELSE Digits(n \div 10) \o <<DigitChars[(n % 10) + 1]>>

(* the decimal string of t tenths, t >= 0 *)
Decimal1(t) == Digits(t \div 10) \o <<".">> \o <<DigitChars[(t % 10) + 1]>>

TenthsTruncated(c, tot) == { (1000 * c) \div tot }

TenthsOfRatio(c, tot) == { (10 * c) \div tot }

(* the tenths nearest to c / tot * 100, for c >= 0 and tot > 0.  toFixed  *)
(* rounds the double it is given: when c / tot * 100 lies exactly halfway  *)
(* between two tenths the double may sit on either side of it (0.15 is     *)
(* below, 0.25 is exact and goes up), so both neighbours are outcomes.     *)
Tenths(c, tot) ==
    LET q == (1000 * c) \div tot
        r == (1000 * c) % tot
    IN  IF 2 * r < tot THEN {q}
        ELSE IF 2 * r > tot THEN {q + 1}
        ELSE {q, q + 1}

(* line 138: ((counts[i] / total) * 100).toFixed(1), the strings it can    *)
(* give.  With total = 0 no iteration ran, c is 0 and 0 / 0 is NaN; with   *)
(* total < 0 likewise c is 0, the value is -0 and prints as "0.0".         *)
ToFixed1(c, tot) ==
    IF tot = 0 THEN { NaNString }
    ELSE IF tot < 0 THEN { Decimal1(0) }
    ELSE { Decimal1(t) : t \in Tenths(c, tot) }

IsDigit(ch) == \E d \in 1..10 : DigitChars[d] = ch

DigitValue(ch) == (CHOOSE d \in 1..10 : DigitChars[d] = ch) - 1

(* reads digits of s from position i on: <<value, first position not read>> *)
RECURSIVE ParseDigits(_, _, _)
ParseDigits(s, i, acc) ==
    IF i <= Len(s) /\ IsDigit(s[i])
    THEN ParseDigits(s, i + 1, 10 * acc + DigitValue(s[i]))
    ELSE <<acc, i>>

(* parseFloat on the strings toFixed(1) gives: <<>> is NaN, <<t>> the      *)
(* number of t tenths                                                      *)
ParseFloat(s) ==
    LET neg   == Len(s) > 0 /\ s[1] = "-"
        start == IF neg THEN 2 ELSE 1
        ip    == ParseDigits(s, start, 0)
        dot   == ip[2]
        frac  == IF dot + 1 <= Len(s) /\ s[dot] = "." /\ IsDigit(s[dot + 1])
                 THEN DigitValue(s[dot + 1]) ELSE 0
        mag   == 10 * ip[1] + frac
    IN  IF ip[2] = start THEN <<>>
        ELSE IF neg THEN <<0 - mag>> ELSE <<mag>>

----------------------------------------------------------------------------
(* The result list, lines 135-139, and its sort, line 383 *)

(* outcomes.map((o, i) => ({...o, simCount, simProb})): the lists it can   *)
(* give, one per choice of the strings of ToFixed1                         *)
MapResultWithoutSpread(outs, cnt, tot) ==
    { [i \in 1..Len(outs) |->
          [name |-> outs[i].name, simCount |-> cnt[i], simProb |-> p] ] :
        p \in UNION { ToFixed1(cnt[i], tot) : i \in 1..Len(outs) } }

MapResult(outs, cnt, tot) ==
    { [i \in 1..Len(outs) |->
          [simCount |-> cnt[i], simProb |-> p[i]] @@ outs[i]] :
        p \in { q \in [1..Len(outs) ->
                          UNION { ToFixed1(cnt[i], tot) : i \in 1..Len(outs) }] :
                    \A i \in 1..Len(outs) : q[i] \in ToFixed1(cnt[i], tot) } }

CompareAscending(a, b) ==
    LET pa == ParseFloat(a.simProb)
        pb == ParseFloat(b.simProb)
    IN  IF pa = <<>> \/ pb = <<>> THEN 0 ELSE pa[1] - pb[1]

(* line 383: (a, b) => parseFloat(b.simProb) - parseFloat(a.simProb), in   *)
(* tenths; Array.prototype.sort reads a NaN from the comparator as +0      *)
SortCompare(a, b) ==
    LET pa == ParseFloat(a.simProb)
        pb == ParseFloat(b.simProb)
    IN  IF pa = <<>> \/ pb = <<>> THEN 0 ELSE pb[1] - pa[1]

(* x put behind every element of the sorted list s that does not have to   *)
(* follow it                                                               *)
RECURSIVE InsertSorted(_, _)
InsertSorted(s, x) ==
    IF s = <<>> THEN <<x>>
    ELSE IF SortCompare(Head(s), x) > 0 THEN <<x>> \o s
    ELSE <<Head(s)>> \o InsertSorted(Tail(s), x)

RECURSIVE SortFrom(_, _, _)
SortFrom(list, i, acc) ==
    IF i > Len(list) THEN acc
    ELSE SortFrom(list, i + 1, InsertSorted(acc, list[i]))

(* line 383: simOutcomes.sort(comparator); Array.prototype.sort is stable  *)
ArraySort(list) == SortFrom(list, 1, <<>>)

----------------------------------------------------------------------------
(* Number arithmetic: the positive finite values of IEEE 754 binary64 as   *)
(* [mant, exp], value mant * 2^(exp - 52), with mant a natural number in   *)
(* 2^52 .. 2^53 - 1 written as three limbs of LimbBits bits, most          *)
(* significant first                                                       *)

Precision == 53
LimbBits == 24
Base == 2^LimbBits

ZeroNat == <<0, 0, 0>>

(* the natural number n < 2^31 in limbs *)
NatOfInt(n) == <<0, n \div Base, n % Base>>

GeqNat(x, y) ==
    \/ x = y
    \/ \E i \in 1..3 : x[i] > y[i] /\ \A j \in 1..(i - 1) : x[j] = y[j]

(* x - y for x >= y *)
SubNat(x, y) ==
    LET d3 == x[3] - y[3]
        d2 == x[2] - y[2] - (IF d3 < 0 THEN 1 ELSE 0)
        d1 == x[1] - y[1] - (IF d2 < 0 THEN 1 ELSE 0)
    IN  <<d1, (d2 + Base) % Base, (d3 + Base) % Base>>

(* x * k + c for small k and c (no limb product reaches 2^31) *)
MulAddNat(x, k, c) ==
    LET v3 == x[3] * k + c
        v2 == x[2] * k + (v3 \div Base)
        v1 == x[1] * k + (v2 \div Base)
    IN  <<v1, v2 % Base, v3 % Base>>

(* x shifted right by s bits, s in 0 .. 3 * LimbBits - 1 *)
ShiftRight(x, s) ==
    LET w == IF s < LimbBits THEN x
             ELSE IF s < 2 * LimbBits THEN <<0, x[1], x[2]>>
             ELSE <<0, 0, x[1]>>
        p == 2^(s % LimbBits)
        q == 2^(LimbBits - (s % LimbBits))
    IN  <<w[1] \div p,
          (w[2] \div p) + (w[1] % p) * q,
          (w[3] \div p) + (w[2] % p) * q>>

(* x shifted left by s bits, the bits above the third limb dropped *)
ShiftLeft(x, s) ==
    LET w == IF s < LimbBits THEN x
             ELSE IF s < 2 * LimbBits THEN <<x[2], x[3], 0>>
             ELSE <<x[3], 0, 0>>
        p == 2^(s % LimbBits)
        q == 2^(LimbBits - (s % LimbBits))
    IN  <<(w[1] % q) * p + (w[2] \div q),
          (w[2] % q) * p + (w[3] \div q),
          (w[3] % q) * p>>

(* the number of bits of a limb, and of a natural number *)
LimbLen(v) == CHOOSE k \in 0..LimbBits : v < 2^k /\ (k = 0 \/ v >= 2^(k - 1))

BitLen(x) ==
    IF x[1] > 0 THEN 2 * LimbBits + LimbLen(x[1])
    ELSE IF x[2] > 0 THEN LimbBits + LimbLen(x[2])
    ELSE LimbLen(x[3])

(* the Number nearest to n * 2^e, ties to the even significand; sticky     *)
(* tells that a non-zero fraction was cut off below n                      *)
RoundNearestEven(n, sticky, e) ==
    LET len == BitLen(n)
        cut == len - Precision
        keep == ShiftRight(n, cut)
        half == ShiftRight(n, cut - 1)
        rest == sticky \/ ShiftLeft(half, cut - 1) /= n
        up == half[3] % 2 = 1 /\ (rest \/ keep[3] % 2 = 1)
        inc == MulAddNat(keep, 1, 1)
    IN  IF cut <= 0
        THEN [mant |-> ShiftLeft(n, 0 - cut), exp |-> e + len - 1]
        ELSE IF ~up THEN [mant |-> keep, exp |-> e + len - 1]
        ELSE IF BitLen(inc) > Precision
             THEN [mant |-> ShiftRight(inc, 1), exp |-> e + len]
             ELSE [mant |-> inc, exp |-> e + len - 1]

(* the Number of an integer 1 .. 2^31 - 1 (exact) *)
FromInt(n) == RoundNearestEven(NatOfInt(n), FALSE, 0)

(* long division: n more quotient bits of r / y behind the bits q *)
RECURSIVE DivLoop(_, _, _, _)
DivLoop(r, y, n, q) ==
    IF n = 0 \/ q[1] >= Base THEN [quot |-> q, sticky |-> r /= ZeroNat]
    ELSE IF GeqNat(r, y)
         THEN DivLoop(MulAddNat(SubNat(r, y), 2, 0), y, n - 1,
                      MulAddNat(q, 2, 1))
         ELSE DivLoop(MulAddNat(r, 2, 0), y, n - 1, MulAddNat(q, 2, 0))

(* x / y *)
FDiv(x, y) ==
    LET ge == GeqNat(x.mant, y.mant)
        d == DivLoop(IF ge THEN x.mant ELSE MulAddNat(x.mant, 2, 0), y.mant,
                     Precision + 1, ZeroNat)
    IN  RoundNearestEven(d.quot, d.sticky,
                         x.exp - y.exp - (IF ge THEN 0 ELSE 1) - Precision)

(* x + y *)
AddNat(x, y) ==
    LET v3 == x[3] + y[3]
        v2 == x[2] + y[2] + (v3 \div Base)
        v1 == x[1] + y[1] + (v2 \div Base)
    IN  <<v1, v2 % Base, v3 % Base>>

(* (h / 2) * x for an integer h in 1 .. 255: h / 2 is a Number, and the    *)
(* product is rounded once                                                 *)
FMulHalves(x, h) ==
    RoundNearestEven(AddNat(MulAddNat(MulAddNat(x.mant, h \div 2, 0), 2, 0),
                            IF h % 2 = 1 THEN x.mant ELSE ZeroNat),
                     FALSE, x.exp - (Precision - 1) - 1)

(* x * k for an integer k in 1 .. 127 *)
FMulInt(x, k) ==
    RoundNearestEven(MulAddNat(x.mant, k, 0), FALSE, x.exp - (Precision - 1))

(* Math.floor of a Number below 2^31 *)
Floor(x) ==
    IF x.exp < 0 THEN 0
    ELSE LET n == ShiftRight(x.mant, (Precision - 1) - x.exp)
         IN  n[2] * Base + n[3]

(* whether a Number is an integer *)
IsWhole(x) ==
    \/ x.exp >= Precision - 1
    \/ /\ x.exp >= 0
       /\ ShiftLeft(ShiftRight(x.mant, (Precision - 1) - x.exp),
                    (Precision - 1) - x.exp) = x.mant

(* Math.ceil of a Number below 2^31 *)
Ceil(x) == IF IsWhole(x) THEN Floor(x) ELSE Floor(x) + 1

----------------------------------------------------------------------------
(* The progress snapshots *)

(* line 95 *)
phases ==
    << "Initializing scenarios...",
       "Calibrating variables...",
       "Running Monte Carlo iterations...",
       "Simulating edge cases...",
       "Aggregating results...",
       "Finalizing predictions..." >>

NaN == "NaN"
Undefined == "undefined"

PctExact(dn, tot) == (100 * dn) \div tot

(* line 126: Math.floor(done / total * 100), a division and then a         *)
(* multiplication of Numbers. done and total have the same sign in every   *)
(* tick; 0 / 0 is NaN                                                      *)
Pct(dn, tot) ==
    IF tot = 0 THEN NaN
    ELSE IF dn = 0 THEN 0
    ELSE Floor(FMulInt(FDiv(FromInt(Abs(dn)), FromInt(Abs(tot))), 100))

PhaseIndexByTwenty(pct) == Min(pct \div 20, Len(phases) - 1)

(* line 130: Math.min(Math.floor(pct / (100 / phases.length)),             *)
(* phases.length - 1), the inner division rounded to a Number first        *)
PhaseIndex(pct) ==
    IF pct = 0 THEN 0
    ELSE Min(Floor(FDiv(FromInt(pct),
                        FDiv(FromInt(100), FromInt(Len(phases))))),
             Len(phases) - 1)

(* line 127-128: elapsed = (Date.now() - start) / 1000 and                *)
(* rate = elapsed > 0 ? Math.floor(done / elapsed) : 0                     *)
Rate(dn, ms) ==
    IF ms <= 0 \/ dn = 0 THEN 0
    ELSE LET elapsed == FDiv(FromInt(ms), FromInt(1000))
             perSecond == FDiv(FromInt(Abs(dn)), elapsed)
         IN  IF dn > 0 THEN Floor(perSecond) ELSE 0 - Ceil(perSecond)

EtaRoundedDown(dn, tot, rate) ==
    IF rate > 0 /\ tot > dn THEN (tot - dn) \div rate ELSE 0

(* line 129: eta = rate > 0 ? Math.ceil((total - done) / rate) : 0 *)
Eta(dn, tot, rate) ==
    IF rate <= 0 \/ tot = dn THEN 0
    ELSE IF tot > dn THEN Ceil(FDiv(FromInt(tot - dn), FromInt(rate)))
    ELSE 0 - Floor(FDiv(FromInt(dn - tot), FromInt(rate)))

(* PhaseIndex, computed once for every percentage *)
PhaseIndexOf == [pct \in 0..100 |-> PhaseIndex(pct)]

Phase(pct) ==
    phases[(IF pct \in DOMAIN PhaseIndexOf THEN PhaseIndexOf[pct]
            ELSE PhaseIndex(pct)) + 1]

(* line 132: the snapshot handed to onProgress; with a total of 0 pct is   *)
(* NaN and phases[NaN] is undefined                                        *)
Snapshot(dn, tot, pct, rate) ==
    [done |-> dn,
     pct |-> IF tot = 0 THEN NaN ELSE pct,
     rate |-> rate,
     eta |-> Eta(dn, tot, rate),
     phase |-> IF tot = 0 THEN Undefined ELSE Phase(pct)]

----------------------------------------------------------------------------
(* The calls of runMonteCarlo *)

TwoWayTotals == {16, 250, 500, 501}
ChunkTotals == {1000, 1001}
LongTotals == {60050, 1000000}
NonPositiveTotals == {0, 0 - 1, 0 - 250}

(* the lists in which one index wins whatever the noise *)
OneWinnerLists(maxLen) ==
    { l \in OutcomeLists(maxLen) : Cardinality(Winners(l)) = 1 }

(* every list of up to MaxOutcomes outcomes with a total of a few          *)
(* iterations; the lists of up to two outcomes with totals around the      *)
(* chunk size; the lists one index always wins with totals of two or       *)
(* three chunks and, up to two outcomes, of a hundred chunks               *)
Inputs ==
    [outcomes : OutcomeLists(MaxOutcomes), total : 1..MaxSmallTotal]
    \cup [outcomes : OutcomeLists(2), total : TwoWayTotals]
    \cup [outcomes : OneWinnerLists(MaxOutcomes), total : ChunkTotals]
    \cup [outcomes : OneWinnerLists(2), total : LongTotals]

(* the clock between two ticks: standing still (every tick within the     *)
(* millisecond the run started in), or set back, standing still, a few     *)
(* milliseconds on, or an hour on (Date.now() is not monotonic)            *)
StillClock == {0}
ClockSteps == {0 - 5, 0, 7, 3600000}

(* the calls whose chunks have few outcomes each: a few iterations, or one *)
(* winner whatever the noise                                               *)
FewBranchInputs ==
    [outcomes : OutcomeLists(2), total : 1..MaxSmallTotal]
    \cup [outcomes : OneWinnerLists(2), total : ChunkTotals \cup LongTotals]

(* the entries of ITER_OPTIONS (lines 67-74) of up to twenty chunks *)
IterOptions == {100, 1000, 10000}

(* the values of done a run of total iterations passes through *)
DoneValues(tot) ==
    { Min(i * CHUNK(tot), tot) : i \in 1..((tot \div CHUNK(tot)) + 1) }

(* Pct, computed once for every snapshot of the calls above *)
PctTable ==
    [tot \in { in.total : in \in Inputs } \cup IterOptions |->
        [dn \in DoneValues(tot) |-> Pct(dn, tot)]]

PctOf(dn, tot) ==
    IF tot \in DOMAIN PctTable /\ dn \in DOMAIN PctTable[tot]
    THEN PctTable[tot][dn]
    ELSE Pct(dn, tot)

(* totals runSimulation never passes (iters is one of ITER_OPTIONS) but a  *)
(* direct call of runMonteCarlo can, here with a non-empty list            *)
NonPositiveInputs ==
    [outcomes : OutcomeLists(2) \ {<<>>}, total : NonPositiveTotals]

----------------------------------------------------------------------------
(* The state machine *)

(* lines 98-103: gaussianRandom draws u and v from Math.random, the one    *)
(* generator of the realm, and draws again whenever it is handed 0. The    *)
(* samples of a tick that meets zeros of them: two for every outcome of    *)
(* every iteration, and one more for every zero                            *)
Draws(n, batch, zeros) == 2 * n * Iterations(batch) + zeros

NoSamples == [first |-> 0, last |-> 0 - 1, count |-> 0]

(* the record of a run that consumes the k samples from position from on *)
Consumed(s, from, k) ==
    IF k = 0 THEN s
    ELSE [first |-> IF s.count = 0 THEN from ELSE s.first,
          last |-> from + k - 1,
          count |-> s.count + k]

(* the numbers of zero samples a tick can meet *)
NoZeroDraws == {0}
ZeroDraws == 0..MaxZeroDraws

(* the closure of one call of runMonteCarlo and its Promise *)
ThisRun ==
    [outcomes |-> outcomes, total |-> total, counts |-> counts, done |-> done,
     timers |-> timers, progress |-> progress, elapsedMs |-> elapsedMs,
     promise |-> promise, result |-> result, resolves |-> resolves,
     samples |-> samples]

(* no call yet *)
IdleRun ==
    [outcomes |-> <<>>, total |-> 0, counts |-> <<>>, done |-> 0,
     timers |-> 0, progress |-> <<>>, elapsedMs |-> <<>>,
     promise |-> "none", result |-> <<>>, resolves |-> 0,
     samples |-> NoSamples]

SetThisRun(run) ==
    /\ outcomes' = run.outcomes
    /\ total' = run.total
    /\ counts' = run.counts
    /\ done' = run.done
    /\ timers' = run.timers
    /\ progress' = run.progress
    /\ elapsedMs' = run.elapsedMs
    /\ promise' = run.promise
    /\ result' = run.result
    /\ resolves' = run.resolves
    /\ samples' = run.samples

Init ==
    /\ outcomes = <<>>
    /\ total = 0
    /\ counts = <<>>
    /\ done = 0
    /\ timers = 0
    /\ progress = <<>>
    /\ elapsedMs = <<>>
    /\ promise = "none"
    /\ result = <<>>
    /\ resolves = 0
    /\ caller = "idle"
    /\ ranked = <<>>
    /\ iterNo = 0
    /\ lastNoise = <<>>
    /\ rng = 0
    /\ samples = NoSamples
    /\ other = IdleRun
    /\ iters = DefaultIters
    /\ running = FALSE
    /\ progressState = <<>>
    /\ results = <<>>
    /\ isPast = FALSE
    /\ progInterval = FALSE
    /\ simPct = 0

(* lines 89-94 and 144: the executor makes the tally, sets done to 0,      *)
(* reads the clock and schedules the first tick                            *)
Started(run, in) ==
    [run EXCEPT !.outcomes = in.outcomes,
                !.total = in.total,
                !.counts = [i \in 1..Len(in.outcomes) |-> 0],
                !.done = 0,
                !.timers = 1,
                !.elapsedMs = <<>>,
                !.promise = "pending"]

NoReschedule(t) == t

ScheduleTwice(t) == t + 2

(* line 141: setTimeout(tick, 0) adds one pending callback *)
Reschedule(t) == t + 1

(* a tick of run whose loop consumed drawn samples and left the tally cnt, *)
(* and lines 125-142 of it, step ms after the previous reading of the      *)
(* clock; res is the list the map of line 135 builds when done >= total.   *)
(* resolve on a Promise already fulfilled changes nothing                  *)
Ticked(run, cnt, step, res, drawn) ==
    LET newDone == run.done + Batch(run.total, run.done)
        lastMs == IF run.elapsedMs = <<>> THEN 0
                  ELSE run.elapsedMs[Len(run.elapsedMs)]
        final == newDone >= run.total
    IN  [run EXCEPT
           !.samples = drawn,
           !.counts = cnt,
           !.done = newDone,
           !.elapsedMs = Append(@, lastMs + step),
           !.progress = Append(@, Snapshot(newDone, run.total,
                                           PctOf(newDone, run.total),
                                           Rate(newDone, lastMs + step))),
           !.result = IF final /\ run.promise = "pending" THEN res ELSE @,
           !.promise = IF final THEN "fulfilled" ELSE @,
           !.resolves = IF final THEN @ + 1 ELSE @,
           !.timers = IF final THEN @ - 1 ELSE Reschedule(@ - 1)]

(* the lists line 135-139 can build after a tick that left cnt *)
Resolutions(run, cnt) ==
    IF run.done + Batch(run.total, run.done) >= run.total
    THEN MapResult(run.outcomes, cnt, run.total)
    ELSE { <<>> }

(* lines 89-94 and 144: runSimulation calls runMonteCarlo (line 376) and   *)
(* awaits the Promise                                                      *)
Call(inputs) ==
    /\ promise = "none"
    /\ \E in \in inputs : SetThisRun(Started(ThisRun, in))
    /\ caller' = "awaiting"
    /\ UNCHANGED <<ranked, iterNo, lastNoise, rng, other>>

RunMonteCarlo(inputs) ==
    /\ caller = "idle"
    /\ Call(inputs)
    /\ UNCHANGED appVars

(* lines 105-143: one timer callback, the batch loop taken as a whole *)
TickOfRun(clockSteps, zeroDraws) ==
    /\ timers > 0
    /\ iterNo = 0
    /\ \E cnt \in AfterBatch(counts, outcomes, Batch(total, done)),
          step \in clockSteps, zeros \in zeroDraws :
         LET k == Draws(Len(outcomes), Batch(total, done), zeros)
         IN  /\ rng' = rng + k
             /\ \E res \in Resolutions(ThisRun, cnt) :
                  SetThisRun(Ticked(ThisRun, cnt, step, res,
                                    Consumed(samples, rng, k)))
    /\ UNCHANGED <<caller, ranked, iterNo, lastNoise, other>>

(* a tick whose onProgress leaves the state of the component alone *)
Tick(clockSteps, zeroDraws) ==
    /\ TickOfRun(clockSteps, zeroDraws)
    /\ UNCHANGED appVars

(* lines 108-122: one iteration of the batch loop of a running tick *)
Iteration ==
    /\ timers > 0
    /\ promise = "pending"
    /\ iterNo < Iterations(Batch(total, done))
    /\ \E noise \in [1..Len(outcomes) -> NoiseSet] :
         /\ lastNoise' = noise
         /\ counts' = Increment(counts, WinnerIdx(outcomes, noise))
    /\ iterNo' = iterNo + 1
    /\ rng' = rng + Draws(Len(outcomes), 1, 0)
    /\ samples' = Consumed(samples, rng, Draws(Len(outcomes), 1, 0))
    /\ UNCHANGED <<outcomes, total, done, timers, progress, elapsedMs, promise,
                   result, resolves, caller, ranked, other>>
    /\ UNCHANGED appVars

(* lines 125-142: the rest of the tick once its loop has run *)
EndBatch(clockSteps) ==
    /\ timers > 0
    /\ iterNo > 0
    /\ iterNo = Iterations(Batch(total, done))
    /\ \E step \in clockSteps, res \in Resolutions(ThisRun, counts) :
         SetThisRun(Ticked(ThisRun, counts, step, res, samples))
    /\ iterNo' = 0
    /\ UNCHANGED <<caller, ranked, lastNoise, rng, other>>
    /\ UNCHANGED appVars

(* lines 89-94 and 144: a second call of runMonteCarlo, with a closure of  *)
(* its own                                                                 *)
RunMonteCarloAgain(inputs) ==
    /\ other.promise = "none"
    /\ \E in \in inputs : other' = Started(other, in)
    /\ UNCHANGED <<outcomes, total, counts, done, timers, progress, elapsedMs,
                   promise, result, resolves, caller, ranked, iterNo,
                   lastNoise, rng, samples>>
    /\ UNCHANGED appVars

OtherTickOnSharedTally(clockSteps, zeroDraws) ==
    /\ other.timers > 0
    /\ \E cnt \in AfterBatch(counts, other.outcomes,
                             Batch(other.total, other.done)),
          step \in clockSteps, zeros \in zeroDraws :
         LET k == Draws(Len(other.outcomes),
                        Batch(other.total, other.done), zeros)
         IN  /\ rng' = rng + k
             /\ counts' = cnt
             /\ \E res \in Resolutions(other, other.counts) :
                  other' = Ticked(other, other.counts, step, res,
                                  Consumed(other.samples, rng, k))
    /\ UNCHANGED <<outcomes, total, done, timers, progress, elapsedMs,
                   promise, result, resolves, caller, ranked, iterNo,
                   lastNoise, samples>>
    /\ UNCHANGED appVars

(* lines 105-143: one timer callback of the second call. It works on the   *)
(* counts and done of its own closure and on the generator of the realm    *)
OtherTick(clockSteps, zeroDraws) ==
    /\ other.timers > 0
    /\ \E cnt \in AfterBatch(other.counts, other.outcomes,
                             Batch(other.total, other.done)),
          step \in clockSteps, zeros \in zeroDraws :
         LET k == Draws(Len(other.outcomes),
                        Batch(other.total, other.done), zeros)
         IN  /\ rng' = rng + k
             /\ \E res \in Resolutions(other, cnt) :
                  other' = Ticked(other, cnt, step, res,
                                  Consumed(other.samples, rng, k))
    /\ UNCHANGED <<outcomes, total, counts, done, timers, progress, elapsedMs,
                   promise, result, resolves, caller, ranked, iterNo,
                   lastNoise, samples>>
    /\ UNCHANGED appVars

(* line 383, after the await of line 376: runSimulation sorts the list it  *)
(* was handed                                                              *)
Sorted ==
    /\ caller = "awaiting"
    /\ promise = "fulfilled"
    /\ ranked' = ArraySort(result)
    /\ caller' = "resumed"
    /\ UNCHANGED <<outcomes, total, counts, done, timers, progress, elapsedMs,
                   promise, result, resolves, iterNo, lastNoise, rng, samples,
                   other>>

SortResults ==
    /\ Sorted
    /\ UNCHANGED appVars

Next ==
    \/ RunMonteCarlo(Inputs)
    \/ Tick(StillClock, NoZeroDraws)
    \/ SortResults

Spec == Init /\ [][Next]_vars

(* the event loop runs every timer callback that stays scheduled *)
NextFair ==
    \/ RunMonteCarlo(FewBranchInputs)
    \/ Tick(StillClock, NoZeroDraws)
    \/ SortResults

SpecFair == Init /\ [][NextFair]_vars /\ WF_vars(Tick(StillClock, NoZeroDraws))

NextAnyTotal ==
    \/ RunMonteCarlo(Inputs \cup NonPositiveInputs)
    \/ Tick(StillClock, NoZeroDraws)
    \/ SortResults

SpecAnyTotal == Init /\ [][NextAnyTotal]_vars

(* the ticks of runs of a few iterations, one iteration of the loop at a   *)
(* time                                                                    *)
IterationInputs == [outcomes : OutcomeLists(2), total : 1..MaxSmallTotal]

NextIteration ==
    \/ RunMonteCarlo(IterationInputs)
    \/ Iteration
    \/ EndBatch(StillClock)
    \/ SortResults

SpecIteration == Init /\ [][NextIteration]_vars

(* two calls in progress at once: two outcomes and two iterations, or one  *)
(* outcome without volatility and two or three chunks                      *)
TwoRunInputs ==
    [outcomes : OutcomeListsOfLen(2), total : {2}]
    \cup [outcomes : { l \in OutcomeListsOfLen(1) : l[1].volatility = 0 },
          total : ChunkTotals]

NextTwoRuns ==
    \/ RunMonteCarlo(TwoRunInputs)
    \/ RunMonteCarloAgain(TwoRunInputs)
    \/ Tick(StillClock, ZeroDraws)
    \/ OtherTick(StillClock, ZeroDraws)
    \/ SortResults

SpecTwoRuns == Init /\ [][NextTwoRuns]_vars

(* runs of up to three chunks under a clock that moves *)
ShortInputs == { in \in FewBranchInputs : in.total \notin LongTotals }

NextClock ==
    \/ RunMonteCarlo(ShortInputs)
    \/ Tick(ClockSteps, NoZeroDraws)
    \/ SortResults

SpecClock == Init /\ [][NextClock]_vars

----------------------------------------------------------------------------
(* runSimulation, lines 302-406, and the component state it sets.  Of the  *)
(* progress object the state progressState keeps pct and phase; of the     *)
(* result, the outcome list and the iteration count.  The history, the     *)
(* haptics, the alerts and the scrolling are left out.                     *)

runVars == <<outcomes, total, counts, done, timers, progress, elapsedMs,
             promise, result, resolves, samples>>

(* the outcome lists the classifier's JSON carries *)
ReplyLists == OneWinnerLists(2)

(* a null where an outcome is expected, which JSON can carry *)
NullOutcome == [null |-> TRUE]

HasNull(l) == \E i \in 1..Len(l) : l[i] = NullOutcome

FirstNull(l) == CHOOSE i \in 1..Len(l) :
                   l[i] = NullOutcome /\ \A j \in 1..(i - 1) : l[j] /= NullOutcome

(* the lists of the classifier's JSON with a null behind at most one       *)
(* outcome                                                                 *)
NullLists == { Append(l, NullOutcome) : l \in OutcomeLists(1) }

(* Math.random() * 2 of line 314, in halves *)
SimPctSteps == {1, 3}

(* line 318: Math.floor(simPct * 0.1), simPct in halves *)
ClassificationPct(h) ==
    IF h = 0 THEN 0
    ELSE Floor(FMulHalves(FDiv(FromInt(1), FromInt(10)), h))

ClassificationPctOf ==
    [h \in 0..(2 * MaxSimPct) |-> ClassificationPct(h)]

(* Math.floor(p * 0.9) of line 380 *)
ScaledPct(p) ==
    IF p = 0 THEN 0
    ELSE Floor(FMulInt(FDiv(FromInt(9), FromInt(10)), p))

ScaledPctOf == [p \in 0..100 |-> ScaledPct(p)]

OnProgressPctUnscaled(p) == 10 + p

(* line 380: the share of the simulation in the percentage shown *)
OnProgressPct(p) == 10 + ScaledPctOf[p]

(* line 504: a button of the iteration grid sets iters; a choice made      *)
(* while a call is running reaches only the closure of the next render     *)
SetIters ==
    /\ ~running
    /\ \E n \in IterOptions \ {iters} : iters' = n
    /\ UNCHANGED <<running, progressState, results, isPast, progInterval,
                   simPct>>
    /\ UNCHANGED <<runVars, caller, ranked, iterNo, lastNoise, rng, other>>

(* lines 302-324: the button, disabled while running (line 522), starts    *)
(* runSimulation on a non-empty event up to the await of line 326          *)
StartSimulation ==
    /\ ~running
    /\ caller = "idle"
    /\ running' = TRUE
    /\ results' = <<>>
    /\ isPast' = FALSE
    /\ progressState' = <<[pct |-> 0, phase |-> "Analyzing event context..."]>>
    /\ simPct' = 0
    /\ progInterval' = TRUE
    /\ caller' = "classifying"
    /\ UNCHANGED <<runVars, iters, ranked, iterNo, lastNoise, rng, other>>

(* lines 313-324: one callback of the interval; it draws two samples *)
ProgInterval ==
    /\ progInterval
    /\ rng < 2 * MaxIntervalTicks
    /\ \E step \in SimPctSteps :
         /\ simPct' = Min(simPct + step, 2 * MaxSimPct)
         /\ progressState' =
                IF progressState = <<>> THEN <<>>
                ELSE <<[progressState[1] EXCEPT
                          !.pct = ClassificationPctOf[simPct']]>>
    /\ rng' = rng + 2
    /\ UNCHANGED <<runVars, iters, running, results, isPast, progInterval,
                   caller, ranked, iterNo, lastNoise, other>>

(* lines 364-376, the event still to come: the interval is cleared (its    *)
(* simPct is read no more), the percentage set to 10 and runMonteCarlo     *)
(* called with the classifier's list and the iters of the closure          *)
Classified ==
    /\ caller = "classifying"
    /\ progInterval' = FALSE
    /\ simPct' = 0
    /\ progressState' =
           <<[pct |-> 10, phase |-> "Building probability model..."]>>
    /\ Call([outcomes : ReplyLists \cup NullLists, total : {iters}])
    /\ UNCHANGED <<iters, running, results, isPast>>

(* lines 105-143 and 376-381: a tick whose onProgress is the callback of  *)
(* runSimulation                                                           *)
SimulationTick ==
    /\ caller = "awaiting"
    /\ ~HasNull(outcomes)
    /\ TickOfRun(StillClock, NoZeroDraws)
    /\ LET p == progress'[Len(progress')]
       IN  progressState' =
              <<[pct |-> OnProgressPct(p.pct), phase |-> p.phase]>>
    /\ UNCHANGED <<iters, running, results, isPast, progInterval, simPct>>

(* lines 105-115: a tick that meets a null in the list.  Its first         *)
(* iteration draws the noise of every outcome up to the null (line 114)    *)
(* and throws at outcome.baseStrength (line 115), inside the timer         *)
(* callback: nothing catches it, the tally and done stay as they were, no  *)
(* tick is scheduled and the Promise is neither resolved nor rejected      *)
ThrowingTick ==
    /\ caller = "awaiting"
    /\ timers > 0
    /\ HasNull(outcomes)
    /\ Batch(total, done) > 0
    /\ timers' = timers - 1
    /\ rng' = rng + 2 * FirstNull(outcomes)
    /\ samples' = Consumed(samples, rng, 2 * FirstNull(outcomes))
    /\ UNCHANGED <<outcomes, total, counts, done, progress, elapsedMs, promise,
                   result, resolves, caller, ranked, iterNo, lastNoise, other>>
    /\ UNCHANGED appVars

(* lines 383-388 and 401-405: after the await the list is sorted and       *)
(* stored, and the finally block ends the run                              *)
Finished ==
    /\ running
    /\ Sorted
    /\ results' = <<[outcomes |-> ranked', iterations |-> total]>>
    /\ running' = FALSE
    /\ progressState' = <<>>
    /\ UNCHANGED <<iters, isPast, progInterval, simPct>>

(* lines 364-372 and 401-405: the classifier tells that the event has      *)
(* already occurred                                                        *)
AlreadyOccurred ==
    /\ caller = "classifying"
    /\ progInterval' = FALSE
    /\ simPct' = 0
    /\ isPast' = TRUE
    /\ \E l \in ReplyLists :
         results' = <<[outcomes |-> l, iterations |-> 0]>>
    /\ running' = FALSE
    /\ progressState' = <<>>
    /\ caller' = "returned"
    /\ UNCHANGED <<runVars, iters, ranked, iterNo, lastNoise, rng, other>>

(* lines 390-405: the classifier call, JSON.parse or the executor of       *)
(* runMonteCarlo (line 91, on a reply without outcomes) throws; the catch  *)
(* block clears the interval and the finally block ends the run            *)
SimulationFails ==
    /\ caller = "classifying"
    /\ progInterval' = FALSE
    /\ simPct' = 0
    /\ running' = FALSE
    /\ progressState' = <<>>
    /\ caller' = "returned"
    /\ UNCHANGED <<runVars, iters, results, isPast, ranked, iterNo,
                   lastNoise, rng, other>>

NextApp ==
    \/ SetIters
    \/ StartSimulation
    \/ ProgInterval
    \/ Classified
    \/ SimulationTick
    \/ ThrowingTick
    \/ Finished
    \/ AlreadyOccurred
    \/ SimulationFails

SpecApp == Init /\ [][NextApp]_vars

(* the await of the classifier call settles, the event loop runs every     *)
(* timer callback that is scheduled and every continuation that is ready   *)
SpecAppFair ==
    /\ Init
    /\ [][NextApp]_vars
    /\ WF_vars(Classified \/ AlreadyOccurred \/ SimulationFails)
    /\ WF_vars(SimulationTick)
    /\ WF_vars(ThrowingTick)
    /\ WF_vars(Finished)

----------------------------------------------------------------------------
(* Properties *)

Called == promise /= "none"

Delivered == promise = "fulfilled"

(* the precondition of simulate: a non-empty list and a total >= 1 *)
ValidCall == Called /\ Len(outcomes) > 0 /\ total >= 1

SimCounts(list) == [i \in 1..Len(list) |-> list[i].simCount]

Str100 == <<"1", "0", "0", ".", "0">>
Str0 == <<"0", ".", "0">>

(* C1: for a non-empty outcome list and a total >= 1, the simCount of the  *)
(* outcomes the Promise is resolved with add up to total.                  *)
C1_SimCountsSumToTotal ==
    (ValidCall /\ Delivered) => Sum(SimCounts(result)) = total

(* a run of two chunks in which both outcomes won iterations *)
C1_Witness ==
    /\ Delivered
    /\ total = 501
    /\ Len(result) = 2
    /\ result[1].simCount = 200
    /\ result[2].simCount = 301

(* C2: for a non-empty outcome list and a total >= 1, each snapshot handed *)
(* to onProgress has a done greater than that of the snapshot before it.   *)
C2_DoneStrictlyIncreasing ==
    ValidCall =>
        \A i \in 1..(Len(progress) - 1) : progress[i].done < progress[i + 1].done

(* three chunks: 500, 500 and the last iteration of 1001 *)
C2_Witness ==
    /\ ValidCall
    /\ total = 1001
    /\ Len(progress) = 3
    /\ progress[1].done = 500
    /\ progress[2].done = 1000
    /\ progress[3].done = 1001

(* the result is delivered once, after a snapshot with done = total which  *)
(* is the last snapshot, and nothing is left scheduled                     *)
DeliveredOnceAfterFinalSnapshot ==
    /\ resolves <= 1
    /\ Delivered <=> resolves = 1
    /\ Delivered =>
          /\ timers = 0
          /\ progress /= <<>>
          /\ \A i \in 1..Len(progress) :
                progress[i].done = total <=> i = Len(progress)
    /\ (Called /\ ~Delivered) =>
          \A i \in 1..Len(progress) : progress[i].done /= total

(* C3: the result is delivered exactly once, only after a snapshot with    *)
(* done = total; after that snapshot no chunk runs and no snapshot is      *)
(* emitted; and no tally whose sum is less than total reaches the caller.  *)
C3_ResultOnceAndComplete ==
    /\ DeliveredOnceAfterFinalSnapshot
    /\ Delivered => Sum(SimCounts(result)) >= total

(* the part of C3 that holds of every call, and all of C3 on valid calls   *)
C3_OnValidCalls ==
    /\ DeliveredOnceAfterFinalSnapshot
    /\ (ValidCall /\ Delivered) => Sum(SimCounts(result)) >= total

(* C4: a call with an empty outcome list is refused: no snapshot is        *)
(* emitted and no result list is delivered.                                *)
C4_EmptyOutcomesRefused ==
    (Called /\ Len(outcomes) = 0) =>
        /\ progress = <<>>
        /\ ~Delivered
        /\ resolves = 0

(* C5: a call with a total <= 0 is refused before any work: the done       *)
(* counter and the tally stay as allocated, onProgress is never invoked    *)
(* and no result is delivered.                                             *)
C5_NonPositiveTotalRefused ==
    (Called /\ total <= 0) =>
        /\ done = 0
        /\ \A i \in DOMAIN counts : counts[i] = 0
        /\ progress = <<>>
        /\ ~Delivered
        /\ resolves = 0

(* the first index holding the highest baseStrength *)
FirstStrongest(outs) ==
    CHOOSE w \in 1..Len(outs) :
        /\ \A j \in 1..Len(outs) : outs[j].baseStrength <= outs[w].baseStrength
        /\ \A j \in 1..(w - 1) : outs[j].baseStrength < outs[w].baseStrength

(* C6: when every outcome has volatility 0 and total >= 1, the first       *)
(* outcome of highest baseStrength gets simCount = total and simProb       *)
(* "100.0", every other outcome simCount 0 and simProb "0.0".              *)
C6_ZeroVolatilityArgmax ==
    (ValidCall /\ Delivered /\ \A i \in 1..Len(outcomes) : outcomes[i].volatility = 0) =>
        LET w == FirstStrongest(outcomes)
        IN  \A i \in 1..Len(result) :
               IF i = w
               THEN result[i].simCount = total /\ result[i].simProb = Str100
               ELSE result[i].simCount = 0 /\ result[i].simProb = Str0

(* strengths 50, 70, 70 without volatility: the second outcome, first of   *)
(* the two strongest, took all 1001 iterations of three chunks                     *)
C6_Witness ==
    /\ Delivered
    /\ total = 1001
    /\ Len(outcomes) = 3
    /\ \A i \in 1..3 : outcomes[i].volatility = 0
    /\ outcomes[1].baseStrength = 50
    /\ outcomes[2].baseStrength = 70
    /\ outcomes[3].baseStrength = 70
    /\ result[2].simCount = 1001

(* C7: with one outcome and total >= 1 the returned outcome has            *)
(* simCount = total and simProb "100.0", whatever its strength and         *)
(* volatility and whatever the noise.                                      *)
C7_SingleOutcomeTakesAll ==
    (ValidCall /\ Delivered /\ Len(outcomes) = 1) =>
        /\ Len(result) = 1
        /\ result[1].simCount = total
        /\ result[1].simProb = Str100

C7_Witness ==
    /\ Delivered
    /\ Len(outcomes) = 1
    /\ outcomes[1].volatility = 40
    /\ total = 60050
    /\ result[1].simCount = 60050

(* the input fields of a returned outcome *)
InputFields(o) == [f \in DOMAIN o \ {"simCount", "simProb"} |-> o[f]]

(* the input position of a returned outcome *)
InputIndex(o) == CHOOSE k \in 1..Len(outcomes) : outcomes[k].name = o.name

C9_ChunkSizeAndSnapshotCount ==
    (Called /\ total >= 1) =>
        LET C == IF total \div 100 > 500 THEN total \div 100 ELSE 500
        IN  /\ \A i \in 1..Len(progress) :
                  progress[i].done = (IF i * C < total THEN i * C ELSE total)
            /\ Delivered => Len(progress) = (total + C - 1) \div C
            /\ (Delivered /\ total <= 500) => Len(progress) = 1
            /\ total = 1000000 => C = 10000 /\ (Delivered => Len(progress) = 100)

C9_Witness ==
    /\ Delivered
    /\ total = 1000000
    /\ Len(progress) = 100
    /\ progress[1].done = 10000


(* C10: the simProb of every returned outcome reads as a number between 0  *)
(* and 100 that is simCount / total * 100 rounded to one decimal: no other *)
(* number of tenths is nearer to it.                                       *)
C10_SimProbIsRoundedPercentage ==
    (Delivered /\ total >= 1) =>
        \A i \in 1..Len(result) :
            LET p == ParseFloat(result[i].simProb)
            IN  /\ p /= <<>>
                /\ p[1] >= 0
                /\ p[1] <= 1000
                /\ 2 * Abs(p[1] * total - 1000 * result[i].simCount) <= total

(* two of three iterations: 66.666... is returned as "66.7" *)
C10_Witness ==
    /\ Delivered
    /\ total = 3
    /\ Len(result) >= 2
    /\ result[2].simCount = 2
    /\ result[2].simProb = <<"6", "6", ".", "7">>

(* C11: a run started with a non-empty list and a total >= 1 completes:   *)
(* while done < total a tick stays scheduled, and when every scheduled     *)
(* tick is eventually run the snapshot with done = total is emitted and    *)
(* the result delivered.                                                   *)
C11_RunCompletes ==
    /\ [](ValidCall /\ done < total => timers > 0 /\ ~Delivered)
    /\ ValidCall ~> (Delivered /\ done = total /\ progress[Len(progress)].done = total)

(* a run of a hundred chunks has completed *)
C11_Witness ==
    /\ ValidCall
    /\ Delivered
    /\ Len(progress) = 100
    /\ done = total

(* the part of C12 that holds of the code: every pct is an integer in      *)
(* 0..100, pct never decreases over the snapshots of a run, and the        *)
(* snapshot with done = total has 100                                      *)
PctBoundedMonotone ==
    /\ \A i \in 1..Len(progress) :
         /\ progress[i].pct \in 0..100
         /\ progress[i].done = total => progress[i].pct = 100
    /\ \A i \in 1..(Len(progress) - 1) : progress[i].pct <= progress[i + 1].pct

(* C12: every snapshot has pct = floor(done / total * 100), an integer in  *)
(* 0..100; pct is non-decreasing over the snapshots of a run and is 100 on *)
(* the final snapshot.                                                     *)
C12_PctIsFloorOfRatio ==
    /\ PctBoundedMonotone
    /\ \A i \in 1..Len(progress) :
         progress[i].pct = PctExact(progress[i].done, total)

(* the label's place in the list, from 0 *)
PhaseRank(label) == (CHOOSE i \in 1..Len(phases) : phases[i] = label) - 1

(* C13: every snapshot's phase is the label at index                       *)
(* min(floor(pct / (100/6)), 5) of the six labels; the index never         *)
(* decreases over the snapshots of a run and the final snapshot carries    *)
(* the last label, "Finalizing predictions...".                            *)
C13_PhaseIsBandOfPct ==
    /\ \A i \in 1..Len(progress) :
         /\ progress[i].phase = phases[Min((6 * progress[i].pct) \div 100, 5) + 1]
         /\ progress[i].done = total =>
              progress[i].phase = "Finalizing predictions..."
    /\ \A i \in 1..(Len(progress) - 1) :
         PhaseRank(progress[i].phase) <= PhaseRank(progress[i + 1].phase)

(* a run of a hundred chunks is half way, at the start of the fourth band, *)
(* having passed the second at 17 percent                                  *)
C13_Witness ==
    /\ Len(progress) = 50
    /\ progress[50].pct = 50
    /\ progress[50].phase = "Simulating edge cases..."
    /\ progress[17].pct = 17
    /\ progress[17].phase = "Calibrating variables..."
    /\ progress[16].phase = "Initializing scenarios..."

(* C18: chunks never run back to back in one task. The call returns       *)
(* before the first chunk (one tick scheduled, nothing tallied, no         *)
(* snapshot), every task runs at most one chunk, after a snapshot with     *)
(* done < total exactly one next chunk is scheduled, and never more than   *)
(* one chunk is pending.                                                   *)
C18_OneChunkPerTask ==
    /\ [](/\ timers \in {0, 1}
          /\ Called /\ progress = <<>> =>
               timers = 1 /\ done = 0 /\ \A i \in 1..Len(counts) : counts[i] = 0
          /\ Called /\ done < total => timers = 1
          /\ Delivered => timers = 0)
    /\ [][/\ Len(progress') <= Len(progress) + 1
          /\ ~Called /\ Called' => progress' = <<>>
          /\ Len(progress') = Len(progress) + 1 =>
               timers = 1 /\ timers' = (IF done' < total THEN 1 ELSE 0)]_vars

(* between the second and the third chunk of a run of three *)
C18_Witness ==
    /\ total = 1001
    /\ Len(outcomes) > 0
    /\ Len(progress) = 2
    /\ done = 1000
    /\ timers = 1

(* C19: in every snapshot rate is 0 when no time has elapsed, eta is a     *)
(* non-negative integer, eta is 0 exactly when rate is 0 or done = total,  *)
(* otherwise eta = ceil((total - done) / rate) >= 1; the final snapshot    *)
(* has eta 0.                                                              *)
C19_RateAndEta ==
    \A i \in 1..Len(progress) :
      LET p == progress[i]
      IN  /\ elapsedMs[i] = 0 => p.rate = 0
          /\ p.rate \in Nat
          /\ p.eta \in Nat
          /\ p.eta = 0 <=> (p.rate = 0 \/ p.done = total)
          /\ p.eta /= 0 =>
               /\ p.eta >= 1
               /\ p.eta = ((total - p.done) + (p.rate - 1)) \div p.rate
          /\ p.done = total => p.eta = 0

(* a run of three chunks: the first tick in the millisecond of the start   *)
(* (rate 0, eta 0), the second 7 ms later with one iteration left          *)
(* (rate 142857, eta 1), the last with eta 0                               *)
C19_Witness ==
    /\ total = 1001
    /\ Len(progress) = 3
    /\ elapsedMs = <<0, 7, 7>>
    /\ progress[1].rate = 0 /\ progress[1].eta = 0
    /\ progress[2].rate = 142857 /\ progress[2].eta = 1
    /\ progress[3].rate = 143000 /\ progress[3].eta = 0

(* after an hour between start and first tick the rate rounds down to 0    *)
(* and eta is 0 with 501 iterations left                                   *)
C19_WitnessSlow ==
    /\ total = 1001
    /\ Len(progress) = 1
    /\ elapsedMs = <<3600000>>
    /\ progress[1].done = 500
    /\ progress[1].rate = 0
    /\ progress[1].eta = 0

PassedThrough ==
    {"name", "shortName", "detail", "emoji", "baseStrength", "volatility"}

(* C16: a run never modifies its input. The input list keeps its length    *)
(* and order and no input record gains simCount or simProb or has a field  *)
(* changed; each returned outcome carries the name, shortName, detail,     *)
(* emoji, baseStrength and volatility of the input outcome at its index.   *)
C16_InputUntouched ==
    /\ [][Called => outcomes' = outcomes]_vars
    /\ [](\A i \in 1..Len(outcomes) : DOMAIN outcomes[i] = PassedThrough)
    /\ [](Delivered =>
            /\ Len(result) = Len(outcomes)
            /\ \A i \in 1..Len(result), f \in PassedThrough :
                 f \in DOMAIN result[i] /\ result[i][f] = outcomes[i][f])

(* three outcomes delivered with their tallies, the input as it was *)
C16_Witness ==
    /\ Delivered
    /\ Len(outcomes) = 3
    /\ Len(result) = 3
    /\ result[3].simCount = total
    /\ result[3].emoji = "fire"
    /\ result[2].detail = "because B"
    /\ outcomes[3] = [name |-> "C", shortName |-> "c", detail |-> "because C",
                      emoji |-> "fire", baseStrength |-> 70, volatility |-> 0]

(* the scores of one iteration and the lowest index with the highest one *)
Scores(outs, noise) == [j \in 1..Len(outs) |-> Score(outs[j], noise[j])]

LowestArgmax(sc) ==
    CHOOSE j \in 1..Len(sc) :
      /\ \A k \in 1..Len(sc) : sc[k] <= sc[j]
      /\ \A k \in 1..(j - 1) : sc[k] < sc[j]

(* C17: every iteration increments exactly one tally entry, by exactly 1:  *)
(* the entry of the lowest index whose score is the maximum of that        *)
(* iteration.                                                              *)
C17_OneIncrementAtFirstMaximum ==
    [][iterNo' = iterNo + 1 /\ Len(outcomes) > 0 =>
         LET w == LowestArgmax(Scores(outcomes, lastNoise'))
         IN  /\ Len(counts') = Len(counts)
             /\ counts'[w] = counts[w] + 1
             /\ \A i \in 1..Len(counts) : i /= w => counts'[i] = counts[i]]_vars

(* the second iteration of a run: both outcomes scored 140, the first one  *)
(* was counted                                                             *)
C17_Witness ==
    /\ iterNo = 2
    /\ Len(outcomes) = 2
    /\ outcomes[1].baseStrength = 50 /\ outcomes[1].volatility = 40
    /\ outcomes[2].baseStrength = 70 /\ outcomes[2].volatility = 0
    /\ lastNoise = <<1, 0>>
    /\ counts = <<1, 1>>

(* what a run keeps whatever else is going on: its tally adds up to its    *)
(* done, its snapshots have strictly increasing done, and the list it      *)
(* delivers has simCounts that add up to its total                         *)
RunIntact(run) ==
    /\ Len(run.outcomes) > 0 => Sum(run.counts) = run.done
    /\ \A i \in 1..(Len(run.progress) - 1) :
         run.progress[i].done < run.progress[i + 1].done
    /\ run.promise = "fulfilled" /\ Len(run.outcomes) > 0 =>
         /\ Sum(SimCounts(run.result)) = run.total
         /\ run.progress[Len(run.progress)].done = run.total

(* C14: with two runs in progress and their chunks interleaved in any      *)
(* order, a chunk of one run never changes the tally or done (or anything  *)
(* else) of the other, and each run returns with sum(simCount) = its own   *)
(* total and its own strictly increasing snapshot sequence.                *)
C14_RunsOwnTheirState ==
    /\ [][ThisRun' = ThisRun \/ other' = other]_vars
    /\ [](RunIntact(ThisRun) /\ RunIntact(other))

(* both runs delivered, of three and of two chunks, after the second       *)
(* run's chunks fell between the first one's                               *)
C14_Witness ==
    /\ promise = "fulfilled" /\ total = 1001
    /\ other.promise = "fulfilled" /\ other.total = 1000
    /\ Sum(SimCounts(result)) = 1001
    /\ Sum(SimCounts(other.result)) = 1000
    /\ other.samples.first > samples.first
    /\ other.samples.last < samples.last

(* C15: concurrent runs do not share mutable random-sampling state: the    *)
(* samples one run consumes are the same whether or not another run's      *)
(* chunks are interleaved with it. On the one generator, that is: the      *)
(* samples a run consumes follow one another with none taken in between.   *)
C15_SamplesUnaffectedByOtherRun ==
    /\ samples.count = samples.last - samples.first + 1
    /\ other.samples.count = other.samples.last - other.samples.first + 1

Shown == progressState[1].pct

(* C20: from the start of runSimulation until progress is cleared the      *)
(* percentage shown never decreases and stays within 0..100: it is in 0..9 *)
(* during the classification, 10 before the first snapshot of the          *)
(* simulation, 10 + floor(pct * 0.9) for each snapshot, and 100 on the     *)
(* final one.                                                              *)
C20_ShownPctMonotone ==
    /\ [](progressState /= <<>> =>
            /\ Shown \in 0..100
            /\ caller = "classifying" => Shown \in 0..9
            /\ (caller = "awaiting" /\ progress = <<>>) => Shown = 10
            /\ (caller = "awaiting" /\ progress /= <<>>) =>
                  Shown = 10 + ((9 * progress[Len(progress)].pct) \div 10)
            /\ (caller = "awaiting" /\ promise = "fulfilled") => Shown = 100)
    /\ [][(progressState /= <<>> /\ progressState' /= <<>>) =>
            progressState'[1].pct >= Shown]_vars

(* a run whose classification took interval callbacks, at the seventh of   *)
(* its twenty snapshots: 35 of 100 from the simulation, 41 shown           *)
C20_Witness ==
    /\ caller = "awaiting"
    /\ samples.first > 0
    /\ total = 10000
    /\ done = 3500
    /\ progress[Len(progress)].pct = 35
    /\ progressState /= <<>>
    /\ Shown = 41

(* between two chunks: a chunk has run and no batch loop is under way *)
BetweenChunks == Called /\ iterNo = 0 /\ progress /= <<>>

(* done after the chunks run so far, each of which added                   *)
(* min(C, total - done)                                                    *)
DoneAfterChunks == Min(Len(progress) * Max(MinChunk, total \div 100), total)

(* C21: between the chunks of a run, the final one included, the tally     *)
(* sums to done and 0 < done <= total; every chunk has added exactly       *)
(* min(C, total - done) to done and to the sum of the tally.               *)
C21_TallySumsToDone ==
    BetweenChunks =>
        /\ Sum(counts) = done
        /\ 0 < done /\ done <= total
        /\ done = DoneAfterChunks

(* C21 for the runs on a non-empty list *)
C21_OnValidCalls == ValidCall => C21_TallySumsToDone

(* runSimulation has run its finally block *)
Ended == caller \in {"resumed", "returned"}

(* the state an ended call leaves: results on the two success paths only *)
CleanAtEnd ==
    Ended =>
        /\ ~running
        /\ progressState = <<>>
        /\ ~progInterval
        /\ results /= <<>> <=> (caller = "resumed" \/ isPast)

(* C22: every call of runSimulation on a non-empty event ends, on each     *)
(* path (event already occurred, simulation completed, error of the       *)
(* classifier call, of JSON.parse or of runMonteCarlo), with running false *)
(* and progress null, the interval cleared so that no progress update      *)
(* follows, and results set only on the two success paths.                 *)
C22_EveryCallEndsClean ==
    /\ [](running => <>Ended)
    /\ []CleanAtEnd
    /\ [][Ended => progressState' = <<>>]_vars

(* the parts of C22 that hold of every call: what an ended call leaves,    *)
(* and that a classification and a simulation on a list without null end   *)
C22_EndedCallsAreClean ==
    /\ []CleanAtEnd
    /\ [][Ended => progressState' = <<>>]_vars
    /\ [](caller = "classifying" => <>(caller /= "classifying"))
    /\ []((caller = "awaiting" /\ ~HasNull(outcomes)) => <>Ended)

=============================================================================
